---- MODULE Spec2Model ----
(***************************************************************************)
(* Tender OCR extractor (server/ocr/tender_extractor.py): the text parser  *)
(* (TenderParser), the OCR pipeline adapter (OCREngine), the orchestrator  *)
(* (TenderExtractor.process_pdf) and the command line entry point (main).  *)
(*                                                                         *)
(* Texts are strings.  The program's regular expressions are written as    *)
(* sequences of nodes, one node per element of the pattern, and matched by *)
(* a backtracking matcher that tries the alternatives in the order         *)
(* Python's re module tries them (greedy: longest first, lazy: shortest    *)
(* first, alternation: left to right).                                     *)
(***************************************************************************)
EXTENDS Integers, Sequences, FiniteSets, TLC

VARIABLES
  pc,                   \* position of the running call
  text,                 \* the text argument of the parser function called
  filename,             \* the filename argument of extract_reference_number
  parts,                \* the pieces the text argument was put together from
  ret,                  \* the value the parser function returned
  lines,                \* extract_items: text.split('\n')
  idx,                  \* extract_items: lines scanned, then items deduplicated
  items,                \* extract_items: the items in scan order
  current_item_number,  \* extract_items: the running item number
  unique_items,         \* extract_items: the list returned
  seen,                 \* extract_items: the dedup keys met so far
  args,                 \* main, process_pdf: the arguments of the run
  world,                \* what the run finds outside: dependencies, the file, failures
  caller,               \* who called process_pdf: "main" or "library"
  images,               \* extract_text_from_pdf: the page images
  all_text,             \* extract_text_from_pdf: the text of each page done
  confidences,          \* extract_text_from_pdf: the average of each page with words
  confidence,           \* process_pdf: the confidence the OCR engine returned
  result,               \* the TenderData record process_pdf returned
  output                \* main: the JSON document printed and the exit code

argVars == <<text, filename, parts>>

itemVars == <<lines, idx, items, current_item_number, unique_items, seen>>

ocrVars == <<images, all_text, confidences>>

inputVars == <<args, world, caller>>

pdfVars == <<inputVars, ocrVars, confidence, result, output>>

vars == <<pc, argVars, ret, itemVars, pdfVars>>

(***************************************************************************)
(* Characters and strings (Python str methods)                             *)
(***************************************************************************)
CharAt(s, i) == SubSeq(s, i, i)

Chars(s) == {CharAt(s, i) : i \in 1..Len(s)}

UpperAlpha == "ABCDEFGHIJKLMNOPQRSTUVWXYZ"

LowerAlpha == "abcdefghijklmnopqrstuvwxyz"

Upper == Chars(UpperAlpha)

Lower == Chars(LowerAlpha)

Digit == Chars("0123456789")

\* \s and str.strip(): the white space characters a module's strings can hold
Space == {" ", "\t", "\n", "\r", "\f"}

\* Code points of the Arabic blocks cannot be written in a module's strings:
\* "~" and "^", which no pattern of the program mentions, stand for two
\* letters of the ranges of arabic_pattern (letters: \w, not \d, not \s,
\* unchanged by lower() and upper()).
ArabicChars == {"~", "^"}

\* \w
WordChars == Upper \cup Lower \cup Digit \cup {"_"} \cup ArabicChars

AlphaIndex(c, alpha) == CHOOSE i \in 1..Len(alpha) : CharAt(alpha, i) = c

LowerOf == [c \in Upper |-> CharAt(LowerAlpha, AlphaIndex(c, UpperAlpha))]

UpperOf == [c \in Lower |-> CharAt(UpperAlpha, AlphaIndex(c, LowerAlpha))]

lowerChar(c) == IF c \in Upper THEN LowerOf[c] ELSE c

upperChar(c) == IF c \in Lower THEN UpperOf[c] ELSE c

\* The concatenation of pieces[lo], ..., pieces[hi], by halves: the strings
\* of the model are up to a few thousand characters long.
RECURSIVE Concat(_, _, _)
Concat(pieces, lo, hi) ==
  IF lo > hi THEN ""
  ELSE IF lo = hi THEN pieces[lo]
  ELSE LET mid == (lo + hi) \div 2
       IN Concat(pieces, lo, mid) \o Concat(pieces, mid + 1, hi)

lower(s) == Concat([i \in 1..Len(s) |-> lowerChar(CharAt(s, i))], 1, Len(s))

upper(s) == Concat([i \in 1..Len(s) |-> upperChar(CharAt(s, i))], 1, Len(s))

\* s[:n]
Prefix(s, n) == SubSeq(s, 1, IF Len(s) < n THEN Len(s) ELSE n)

\* the least and the greatest element of a non-empty set of integers
Least(S) == CHOOSE i \in S : \A j \in S : i <= j

Greatest(S) == CHOOSE i \in S : \A j \in S : i >= j

\* s with the characters outside the positions from Least(inked) to
\* Greatest(inked) dropped
Between(s, inked) ==
  IF inked = {} THEN "" ELSE SubSeq(s, Least(inked), Greatest(inked))

\* s.strip()
strip(s) == Between(s, {i \in 1..Len(s) : CharAt(s, i) \notin Space})

\* s.split(sep) for a one-character separator; at: the positions of sep in s
RECURSIVE SplitAt(_, _, _)
SplitAt(s, from, at) ==
  IF at = {} THEN <<SubSeq(s, from, Len(s))>>
  ELSE <<SubSeq(s, from, Least(at) - 1)>>
       \o SplitAt(s, Least(at) + 1, at \ {Least(at)})

split(s, sep) == SplitAt(s, 1, {i \in 1..Len(s) : CharAt(s, i) = sep})

\* s.replace(a, b) for one-character a and b
replace(s, a, b) ==
  Concat([i \in 1..Len(s) |-> IF CharAt(s, i) = a THEN b ELSE CharAt(s, i)], 1, Len(s))

\* sep.join(strs)
join(sep, strs) ==
  Concat([i \in 1..Len(strs) |-> IF i = 1 THEN strs[i] ELSE sep \o strs[i]],
         1, Len(strs))

\* c * n
Times(c, n) == Concat([i \in 1..n |-> c], 1, n)

(***************************************************************************)
(* Regular expressions (Python re)                                         *)
(*                                                                         *)
(* A pattern is a sequence of nodes.  Node kinds:                          *)
(*   "cls"   lo..hi characters of the class cs (of its complement when     *)
(*           neg), hi = -1 for no upper limit, lazy for the ?-suffixed     *)
(*           quantifiers                                                   *)
(*   "grp"   capture group n around the pattern subs[1]                    *)
(*   "end"   the close of capture group n (put by the matcher)             *)
(*   "alt"   the patterns subs[1] | subs[2] | ... ; (?:x)? is x | empty    *)
(*   "bol" ^, "eol" $, "eot" \Z, "wb" \b                                   *)
(***************************************************************************)
Node(t, cs, neg, lo, hi, lazy, n, subs) ==
  [t |-> t, cs |-> cs, neg |-> neg, lo |-> lo, hi |-> hi, lazy |-> lazy,
   n |-> n, subs |-> subs]

Rep(cs, lo, hi) == Node("cls", cs, FALSE, lo, hi, FALSE, 0, <<>>)

RepLazy(cs, lo, hi) == Node("cls", cs, FALSE, lo, hi, TRUE, 0, <<>>)

NotRep(cs, lo, hi) == Node("cls", cs, TRUE, lo, hi, FALSE, 0, <<>>)

NotRepLazy(cs, lo, hi) == Node("cls", cs, TRUE, lo, hi, TRUE, 0, <<>>)

One(cs) == Rep(cs, 1, 1)

Star(cs) == Rep(cs, 0, -1)

Plus(cs) == Rep(cs, 1, -1)

Maybe(cs) == Rep(cs, 0, 1)

Grp(n, body) == Node("grp", {}, FALSE, 0, 0, FALSE, n, <<body>>)

GrpEnd(n) == Node("end", {}, FALSE, 0, 0, FALSE, n, <<>>)

Alt(branches) == Node("alt", {}, FALSE, 0, 0, FALSE, 0, branches)

Opt(body) == Alt(<<body, <<>>>>)

Bol == Node("bol", {}, FALSE, 0, 0, FALSE, 0, <<>>)

Eol == Node("eol", {}, FALSE, 0, 0, FALSE, 0, <<>>)

Eot == Node("eot", {}, FALSE, 0, 0, FALSE, 0, <<>>)

WordB == Node("wb", {}, FALSE, 0, 0, FALSE, 0, <<>>)

\* a literal string
Lit(s) == [i \in 1..Len(s) |-> One({CharAt(s, i)})]

\* . without re.DOTALL, and with it
Dot == {"\n"}

DotAll == {}

\* the capture groups of a match: <<from, to>> (to exclusive), <<0, 0>> for a
\* group that took no part
NoCaps == [g \in 1..4 |-> <<0, 0>>]

Fail == <<FALSE, 0, NoCaps>>

\* whether character c is in the node's class; ic is re.IGNORECASE
InClass(c, nd, ic) ==
  (c \in nd.cs \/ (ic /\ (lowerChar(c) \in nd.cs \/ upperChar(c) \in nd.cs)))
    # nd.neg

\* i when S is empty, else the least element of S
LeastOr(S, i) == IF S = {} THEN i ELSE Least(S)

\* the first position from i, below limit, whose character is not in the
\* class (limit when there is none)
RunEnd(s, i, nd, ic, limit) ==
  IF nd.neg /\ nd.cs = {} THEN limit
  ELSE LeastOr({m \in i..(limit - 1) : ~InClass(CharAt(s, m), nd, ic)}, limit)

\* the last position a run of the node's class from i may end at: hi
\* characters on, or the end of s
RunLimit(s, i, nd) ==
  IF nd.hi < 0 \/ i + nd.hi > Len(s) + 1 THEN Len(s) + 1 ELSE i + nd.hi

AtWordBoundary(s, i) ==
  (i > 1 /\ CharAt(s, i - 1) \in WordChars)
    # (i <= Len(s) /\ CharAt(s, i) \in WordChars)

\* Of the alternatives tried, pairs <<rank, match>>, the match of the
\* successful one of the least rank (of the greatest, when `last`), or Fail
Preferred(tried, last) ==
  IF \A r \in tried : ~r[2][1] THEN Fail
  ELSE (CHOOSE r \in tried : r[2][1] /\ \A q \in tried :
          q[2][1] => IF last THEN r[1] >= q[1] ELSE r[1] <= q[1])[2]

\* The match of pattern k at position i of s that the backtracking search
\* finds first: <<TRUE, end position, captures>>, or Fail.
RECURSIVE Match(_, _, _, _, _)
Match(k, s, i, caps, ic) ==
  IF Len(k) = 0 THEN <<TRUE, i, caps>>
  ELSE
    CASE Head(k).t = "cls" /\ Head(k).lo = 1 /\ Head(k).hi = 1 ->
           IF i <= Len(s) /\ InClass(CharAt(s, i), Head(k), ic)
           THEN Match(Tail(k), s, i + 1, caps, ic) ELSE Fail
      [] Head(k).t = "cls" /\ ~(Head(k).lo = 1 /\ Head(k).hi = 1) ->
           \* a greedy quantifier prefers the longest run, a lazy one the shortest
           Preferred({<<j, Match(Tail(k), s, j, caps, ic)>> :
                        j \in (i + Head(k).lo)..
                                RunEnd(s, i, Head(k), ic, RunLimit(s, i, Head(k)))},
                     ~Head(k).lazy)
      [] Head(k).t = "grp" ->
           Match(Head(k).subs[1] \o <<GrpEnd(Head(k).n)>> \o Tail(k), s, i,
                 [caps EXCEPT ![Head(k).n] = <<i, 0>>], ic)
      [] Head(k).t = "end" ->
           Match(Tail(k), s, i,
                 [caps EXCEPT ![Head(k).n] = <<caps[Head(k).n][1], i>>], ic)
      [] Head(k).t = "alt" ->
           Preferred({<<b, Match(Head(k).subs[b] \o Tail(k), s, i, caps, ic)>> :
                        b \in 1..Len(Head(k).subs)},
                     FALSE)
      [] Head(k).t = "bol" ->
           IF i = 1 THEN Match(Tail(k), s, i, caps, ic) ELSE Fail
      [] Head(k).t = "eol" ->
           IF i = Len(s) + 1 \/ (i = Len(s) /\ CharAt(s, i) = "\n")
           THEN Match(Tail(k), s, i, caps, ic) ELSE Fail
      [] Head(k).t = "eot" ->
           IF i = Len(s) + 1 THEN Match(Tail(k), s, i, caps, ic) ELSE Fail
      [] Head(k).t = "wb" ->
           IF AtWordBoundary(s, i) THEN Match(Tail(k), s, i, caps, ic) ELSE Fail

\* re.match(p, s): a match at the start of s
reMatch(p, s, ic) == Match(p, s, 1, NoCaps, ic)

\* Of the start positions tried, pairs <<start, match>>, the first that has a
\* match, or <<0, Fail>>
FirstStart(tried) ==
  IF \A r \in tried : ~r[2][1] THEN <<0, Fail>>
  ELSE CHOOSE r \in tried : r[2][1] /\ \A q \in tried : q[2][1] => r[1] <= q[1]

\* a match of p starting at the first position from `from` that has one:
\* <<start, match>>, or <<0, Fail>>
SearchFrom(p, s, from, ic) ==
  FirstStart({<<st, Match(p, s, st, NoCaps, ic)>> : st \in from..(Len(s) + 1)})

\* re.search(p, s)
reSearch(p, s, ic) == SearchFrom(p, s, 1, ic)[2]

\* match.group(g); "" stands for None as well
Group(s, m, g) ==
  IF m[3][g][1] = 0 THEN "" ELSE SubSeq(s, m[3][g][1], m[3][g][2] - 1)

\* whether group g took part in the match
HasGroup(m, g) == m[3][g][1] # 0

\* re.findall(p, s) for a pattern with one group: the group of every match,
\* matches not overlapping, left to right; r is the match found from `from`
RECURSIVE FindAllFrom(_, _, _, _)
FindAllFrom(p, s, r, ic) ==
  IF ~r[2][1] THEN <<>>
  ELSE <<Group(s, r[2], 1)>> \o
       FindAllFrom(p, s,
                   SearchFrom(p, s, IF r[2][2] = r[1] THEN r[2][2] + 1 ELSE r[2][2], ic),
                   ic)

findall(p, s, ic) == FindAllFrom(p, s, SearchFrom(p, s, 1, ic), ic)

\* re.sub(r'\s+', ' ', s): a run of white space becomes one blank
CollapseSpace(s) ==
  Concat([i \in 1..Len(s) |->
            IF CharAt(s, i) \notin Space THEN CharAt(s, i)
            ELSE IF i = 1 \/ CharAt(s, i - 1) \notin Space THEN " " ELSE ""],
         1, Len(s))

(***************************************************************************)
(* Numbers: int(s) and str(n) on decimal digit strings                     *)
(***************************************************************************)
DigitString == "0123456789"

DigitValue(c) == AlphaIndex(c, DigitString) - 1

\* int(s), s made of digits
RECURSIVE int(_)
int(s) ==
  IF s = "" THEN 0
  ELSE 10 * int(SubSeq(s, 1, Len(s) - 1)) + DigitValue(CharAt(s, Len(s)))

\* str(n), n >= 0
RECURSIVE str(_)
str(n) ==
  IF n < 10 THEN CharAt(DigitString, n + 1)
  ELSE str(n \div 10) \o CharAt(DigitString, (n % 10) + 1)

(***************************************************************************)
(* Fractions: the averages of extract_text_from_pdf are kept exact, as     *)
(* pairs <<numerator, denominator>> in lowest terms                        *)
(***************************************************************************)
RECURSIVE GCD(_, _)
GCD(a, b) == IF b = 0 THEN a ELSE GCD(b, a % b)

Reduced(x) == <<x[1] \div GCD(x[1], x[2]), x[2] \div GCD(x[1], x[2])>>

Zero == <<0, 1>>

RatAdd(x, y) == Reduced(<<x[1] * y[2] + y[1] * x[2], x[2] * y[2]>>)

\* sum(qs[1..n])
RECURSIVE RatSum(_, _)
RatSum(qs, n) == IF n = 0 THEN Zero ELSE RatAdd(RatSum(qs, n - 1), qs[n])

\* sum(ns[1..n]) of integers
RECURSIVE Sum(_, _)
Sum(ns, n) == IF n = 0 THEN 0 ELSE Sum(ns, n - 1) + ns[n]

\* sum(qs) / len(qs)
Mean(qs) == Reduced(<<RatSum(qs, Len(qs))[1], RatSum(qs, Len(qs))[2] * Len(qs)>>)

(***************************************************************************)
(* OCREngine.extract_text_from_pdf                                         *)
(*                                                                         *)
(* A page image is [fails, words]: whether preprocessing or recognition of *)
(* the page raises, and the words pytesseract.image_to_data reports for    *)
(* it, each [text, conf] with conf = int(ocr_data['conf'][j]).             *)
(***************************************************************************)
\* OCRConfig.MAX_PAGES
MAX_PAGES == 10

PAGE_BREAK == "\n\n--- PAGE BREAK ---\n\n"

Word(t, c) == [text |-> t, conf |-> c]

Page(ws) == [fails |-> FALSE, words |-> ws]

\* if conf > 0 and word.strip()
Kept(word) == word.conf > 0 /\ strip(word.text) # ""

\* page_text after the loop over the words
page_text(words) ==
  [j \in 1..Len(SelectSeq(words, Kept)) |-> SelectSeq(words, Kept)[j].text]

\* page_confidences after the loop over the words
page_confidences(words) ==
  [j \in 1..Len(SelectSeq(words, Kept)) |-> SelectSeq(words, Kept)[j].conf]

\* A page text that keeps each word on a line of its own
PageTextByLine(words) == join("\n", page_text(words))

\* " ".join(page_text)
PageText(words) == join(" ", page_text(words))

\* sum(page_confidences) / len(page_confidences)
PageAverage(confs) == Reduced(<<Sum(confs, Len(confs)), Len(confs)>>)

\* max_pages or OCRConfig.MAX_PAGES
PageLimit(max_pages) == IF max_pages = 0 THEN MAX_PAGES ELSE max_pages

\* convert_from_path(pdf_path, first_page=1, last_page=max_pages)
convert_from_path(pages, max_pages) ==
  SubSeq(pages, 1, IF Len(pages) < max_pages THEN Len(pages) ELSE max_pages)

\* The pages the PDF files are made of
BlankPage == Page(<<>>)

NoisePage == Page(<<Word("", 95), Word("Gloves", 0), Word(" ", 50), Word("|", -1)>>)

ItemPage ==
  Page(<<Word("1.", 90), Word("Surgical", 80), Word("smudge", 0), Word("Gloves", 85),
         Word("-", 70), Word("500", 96), Word("pieces", 91), Word("2.", 88),
         Word("Syringes", 92), Word("-", 60), Word("20", 75), Word("pcs", 90)>>)

DatePage ==
  Page(<<Word("Tender", 90), Word("No:", 85), Word("11AB22", 80), Word("Closing", 88),
         Word("Date:", 60), Word("15/03/2025", 75)>>)

ArabicPage == Page(<<Word("~^~^", 60), Word("^~", 41)>>)

FailPage == [fails |-> TRUE, words |-> <<>>]

ReadablePages == {BlankPage, NoisePage, ItemPage, DatePage, ArabicPage}

\* Bound: the number of pages of a PDF file
MaxPdfPages == 2

\* The lines of the texts the OCR engine returns for such files
PageLines == {PageText(page.words) : page \in ReadablePages} \cup {"--- PAGE BREAK ---"}

\* The texts the OCR engine returns for such files
PdfTexts ==
  {join(PAGE_BREAK, [i \in 1..Len(ps) |-> PageText(ps[i].words)]) :
     ps \in UNION {[1..n -> ReadablePages] : n \in 0..MaxPdfPages}}

(***************************************************************************)
(* TenderParser.detect_language                                            *)
(***************************************************************************)
\* len(re.findall(arabic_pattern, text))
arabic_chars(t) == Cardinality({i \in 1..Len(t) : CharAt(t, i) \in ArabicChars})

\* len(re.sub(r'\s+', '', text))
total_chars(t) == Cardinality({i \in 1..Len(t) : CharAt(t, i) \notin Space})

\* The thresholds taken as inclusive
LanguageOfInclusive(a, n) ==
  IF n = 0
  THEN [language |-> "unknown", arabic_ratio |-> <<0, 1>>, has_arabic |-> FALSE]
  ELSE [language |-> IF 10 * a >= 3 * n THEN "arabic"
                     ELSE IF 100 * a >= 5 * n THEN "mixed"
                     ELSE "english",
        arabic_ratio |-> <<a, n>>,
        has_arabic |-> a > 0]

\* arabic_ratio is the float a / n; it is kept as the pair <<a, n>> and compared
\* with 0.3 and 0.05 exactly (a / n > 3 / 10 iff 10 a > 3 n): the correctly
\* rounded quotient of two integers below 2^53 compares with the double nearest
\* to 0.3 (0.05) as the exact quotient compares with 0.3 (0.05) for every text
\* shorter than 10^15 characters.
LanguageOf(a, n) ==
  IF n = 0
  THEN [language |-> "unknown", arabic_ratio |-> <<0, 1>>, has_arabic |-> FALSE]
  ELSE [language |-> IF 10 * a > 3 * n THEN "arabic"
                     ELSE IF 100 * a > 5 * n THEN "mixed"
                     ELSE "english",
        arabic_ratio |-> <<a, n>>,
        has_arabic |-> a > 0]

detect_language(t) == LanguageOf(arabic_chars(t), total_chars(t))

(***************************************************************************)
(* TenderParser.extract_reference_number                                   *)
(***************************************************************************)
\* \d{1,2}[A-Z]{2,3}\d{2,4}
RefCode == <<Rep(Digit, 1, 2), Rep(Upper, 2, 3), Rep(Digit, 2, 4)>>

\* (\d{1,2}[A-Z]{2,3}\d{2,4}), searched in the filename without flags
filename_pattern == <<Grp(1, RefCode)>>

reference_patterns ==
  << \* (?:Tender\s*(?:No\.?|Number|Ref\.?)?[:\s]*)?(\d{1,2}[A-Z]{2,3}\d{2,4})
     <<Opt(Lit("Tender") \o
           <<Star(Space),
             Opt(<<Alt(<< Lit("No") \o <<Maybe({"."})>>, Lit("Number"),
                          Lit("Ref") \o <<Maybe({"."})>> >>)>>),
             Star({":"} \cup Space)>>),
       Grp(1, RefCode)>>,
     \* (?:Reference[:\s]*)?(\d{1,2}[A-Z]{2,3}\d{2,4})
     <<Opt(Lit("Reference") \o <<Star({":"} \cup Space)>>), Grp(1, RefCode)>>,
     \* \b(\d{1,2}(?:TN|LB|AL|EQ|LS|MA|PS|PT|TE|TS|IC|RC|BM)\d{2,4})\b
     <<WordB,
       Grp(1, <<Rep(Digit, 1, 2),
                Alt(<< Lit("TN"), Lit("LB"), Lit("AL"), Lit("EQ"), Lit("LS"), Lit("MA"),
                       Lit("PS"), Lit("PT"), Lit("TE"), Lit("TS"), Lit("IC"), Lit("RC"),
                       Lit("BM") >>),
                Rep(Digit, 2, 4)>>),
       WordB>> >>

\* `for pattern in patterns` from pattern p on: the first pattern found in the
\* text gives match.group(1).upper()
RECURSIVE ReferenceInText(_, _)
ReferenceInText(t, p) ==
  IF p > Len(reference_patterns) THEN ""
  ELSE IF reSearch(reference_patterns[p], t, TRUE)[1]
       THEN upper(Group(t, reSearch(reference_patterns[p], t, TRUE), 1))
       ELSE ReferenceInText(t, p + 1)

\* The text consulted before the filename
ReferenceTextFirst(t, f) ==
  IF ReferenceInText(t, 1) # "" THEN ReferenceInText(t, 1)
  ELSE IF f # "" /\ reSearch(filename_pattern, f, FALSE)[1]
       THEN Group(f, reSearch(filename_pattern, f, FALSE), 1)
       ELSE ""

\* the filename first (lines 277-280), then the patterns on the text
extract_reference_number(t, f) ==
  IF f # "" /\ reSearch(filename_pattern, f, FALSE)[1]
  THEN Group(f, reSearch(filename_pattern, f, FALSE), 1)
  ELSE ReferenceInText(t, 1)

(***************************************************************************)
(* TenderParser.extract_closing_date, extract_posting_date                 *)
(***************************************************************************)
\* \d{1,2}[/\-\.]\d{1,2}[/\-\.]\d{2,4}
AnyDate ==
  <<Rep(Digit, 1, 2), One({"/", "-", "."}), Rep(Digit, 1, 2), One({"/", "-", "."}),
    Rep(Digit, 2, 4)>>

\* (\d{2}/\d{2}/\d{4})
BareDate ==
  <<Grp(1, <<Rep(Digit, 2, 2), One({"/"}), Rep(Digit, 2, 2), One({"/"}),
             Rep(Digit, 4, 4)>>)>>

closing_patterns ==
  << \* (?:Closing\s*Date|Close\s*Date|Last\s*Date|Deadline)[:\s]*(<date>)
     <<Alt(<< Lit("Closing") \o <<Star(Space)>> \o Lit("Date"),
              Lit("Close") \o <<Star(Space)>> \o Lit("Date"),
              Lit("Last") \o <<Star(Space)>> \o Lit("Date"),
              Lit("Deadline") >>),
       Star({":"} \cup Space), Grp(1, AnyDate)>>,
     \* (?:close[sd]?\s*(?:on|by)?|deadline)[:\s]*(<date>)
     <<Alt(<< Lit("close") \o
                <<Maybe({"s", "d"}), Star(Space), Opt(<<Alt(<<Lit("on"), Lit("by")>>)>>)>>,
              Lit("deadline") >>),
       Star({":"} \cup Space), Grp(1, AnyDate)>>,
     \* (\d{2}/\d{2}/\d{4})
     BareDate >>

\* date_str.replace('-', '/').replace('.', '/')
Slashes(date_str) == replace(replace(date_str, "-", "/"), ".", "/")

\* The first of the matches
FirstMatch(matches) == matches[1]

\* matches[-1] if len(matches) > 1 else matches[0]
LastMatch(matches) ==
  IF Len(matches) > 1 THEN matches[Len(matches)] ELSE matches[1]

\* `for pattern in patterns` from pattern p on; matches = re.findall(pattern, text)
RECURSIVE ClosingFrom(_, _, _)
ClosingFrom(t, p, matches) ==
  IF Len(matches) > 0 THEN Slashes(LastMatch(matches))
  ELSE IF p = Len(closing_patterns) THEN ""
  ELSE ClosingFrom(t, p + 1, findall(closing_patterns[p + 1], t, TRUE))

extract_closing_date(t) == ClosingFrom(t, 1, findall(closing_patterns[1], t, TRUE))

\* (?:Posted|Published|Posted\s*Date|Publication\s*Date)[:\s]*(<date>)
posting_pattern ==
  <<Alt(<< Lit("Posted"), Lit("Published"),
           Lit("Posted") \o <<Star(Space)>> \o Lit("Date"),
           Lit("Publication") \o <<Star(Space)>> \o Lit("Date") >>),
    Star({":"} \cup Space), Grp(1, AnyDate)>>

\* all_dates[0] if all_dates else ""
FirstOrEmpty(all_dates) == IF Len(all_dates) > 0 THEN all_dates[1] ELSE ""

\* the match of posting_pattern, else the first date found
PostingOf(t, m) ==
  IF m[1] THEN Slashes(Group(t, m, 1)) ELSE FirstOrEmpty(findall(BareDate, t, FALSE))

extract_posting_date(t) == PostingOf(t, reSearch(posting_pattern, t, TRUE))

(***************************************************************************)
(* TenderParser.extract_specifications                                     *)
(***************************************************************************)
specification_patterns ==
  << \* (?:Technical\s*)?Specifications?[:\s]*(.+?)(?:Terms|Conditions|Notes|\Z)
     <<Opt(Lit("Technical") \o <<Star(Space)>>)>> \o Lit("Specification")
       \o <<Maybe({"s"}), Star({":"} \cup Space), Grp(1, <<NotRepLazy(DotAll, 1, -1)>>),
            Alt(<<Lit("Terms"), Lit("Conditions"), Lit("Notes"), <<Eot>>>>)>>,
     \* Requirements?[:\s]*(.+?)(?:Terms|Notes|\Z)
     Lit("Requirement")
       \o <<Maybe({"s"}), Star({":"} \cup Space), Grp(1, <<NotRepLazy(DotAll, 1, -1)>>),
            Alt(<<Lit("Terms"), Lit("Notes"), <<Eot>>>>)>>,
     \* Description[:\s]*(.+?)(?:Quantity|Terms|\Z)
     Lit("Description")
       \o <<Star({":"} \cup Space), Grp(1, <<NotRepLazy(DotAll, 1, -1)>>),
            Alt(<<Lit("Quantity"), Lit("Terms"), <<Eot>>>>)>> >>

\* len(specs) > 50
MinSpecs == 50

\* specs[:2000]
MaxSpecs == 2000

\* The capture with its whitespace runs kept
SpecsUncollapsed(t, m) == strip(Group(t, m, 1))

\* specs = re.sub(r'\s+', ' ', match.group(1).strip())
SpecsOf(t, m) == CollapseSpace(strip(Group(t, m, 1)))

\* `for pattern in patterns` from pattern p on; m = re.search(pattern, text)
RECURSIVE SpecificationsFrom(_, _, _)
SpecificationsFrom(t, p, m) ==
  IF m[1] /\ Len(SpecsOf(t, m)) > MinSpecs THEN Prefix(SpecsOf(t, m), MaxSpecs)
  ELSE IF p = Len(specification_patterns) THEN ""
  ELSE SpecificationsFrom(t, p + 1, reSearch(specification_patterns[p + 1], t, TRUE))

extract_specifications(t) ==
  SpecificationsFrom(t, 1, reSearch(specification_patterns[1], t, TRUE))

(***************************************************************************)
(* TenderParser.is_garbage_line                                            *)
(***************************************************************************)
garbage_patterns ==
  << \* ^page\s*\d+
     <<Bol>> \o Lit("page") \o <<Star(Space), Plus(Digit)>>,
     \* ^\d+\s*of\s*\d+$
     <<Bol, Plus(Digit), Star(Space)>> \o Lit("of") \o <<Star(Space), Plus(Digit), Eol>>,
     \* ^https?://
     <<Bol>> \o Lit("http") \o <<Maybe({"s"})>> \o Lit("://"),
     \* ^\+?\d{3}[\s\-]?\d{4}[\s\-]?\d{4}$
     <<Bol, Maybe({"+"}), Rep(Digit, 3, 3), Maybe(Space \cup {"-"}), Rep(Digit, 4, 4),
       Maybe(Space \cup {"-"}), Rep(Digit, 4, 4), Eol>>,
     \* ^ministry\s+of\s+health
     <<Bol>> \o Lit("ministry") \o <<Plus(Space)>> \o Lit("of") \o <<Plus(Space)>>
        \o Lit("health"),
     \* ^state\s+of\s+kuwait
     <<Bol>> \o Lit("state") \o <<Plus(Space)>> \o Lit("of") \o <<Plus(Space)>>
        \o Lit("kuwait"),
     \* ^medical\s+stores
     <<Bol>> \o Lit("medical") \o <<Plus(Space)>> \o Lit("stores"),
     \* ^tender\s+department
     <<Bol>> \o Lit("tender") \o <<Plus(Space)>> \o Lit("department") >>

\* A test for lines of digits alone
DigitsOnly == <<Bol, Plus(Digit), Eol>>

\* ^[\d\s\-\.\,]+$
DigitsPunctuation == <<Bol, Plus(Digit \cup Space \cup {"-", ".", ","}), Eol>>

\* "Too short": len(line.strip()) < 5
MinLineLen == 5

is_garbage_line(line) ==
  \/ \E g \in 1..Len(garbage_patterns) :
       reMatch(garbage_patterns[g], strip(lower(line)), FALSE)[1]
  \/ Len(strip(line)) < MinLineLen
  \/ reMatch(DigitsPunctuation, line, FALSE)[1]

(***************************************************************************)
(* TenderParser.extract_items                                              *)
(***************************************************************************)
\* (pieces?|pcs?|units?|each|nos?|sets?|qty)
UnitWord ==
  Alt(<< Lit("piece") \o <<Maybe({"s"})>>, Lit("pc") \o <<Maybe({"s"})>>,
         Lit("unit") \o <<Maybe({"s"})>>, Lit("each"), Lit("no") \o <<Maybe({"s"})>>,
         Lit("set") \o <<Maybe({"s"})>>, Lit("qty") >>)

\* (pieces?|pcs?|units?)
UnitWordShort ==
  Alt(<< Lit("piece") \o <<Maybe({"s"})>>, Lit("pc") \o <<Maybe({"s"})>>,
         Lit("unit") \o <<Maybe({"s"})>> >>)

\* (?:PFS|VIAL|AMP|TAB|CAP|TUBE|BTL|BOX|PKT|SET|UNIT|PCE)
PackWord ==
  Alt(<< Lit("PFS"), Lit("VIAL"), Lit("AMP"), Lit("TAB"), Lit("CAP"), Lit("TUBE"),
         Lit("BTL"), Lit("BOX"), Lit("PKT"), Lit("SET"), Lit("UNIT"), Lit("PCE") >>)

\* \d+(?:[.,]\d+)?
Decimal == <<Plus(Digit), Opt(<<One({".", ","}), Plus(Digit)>>)>>

\* The en dash of [-–:] cannot be written in a module's strings; no input of
\* the model holds one.
item_patterns ==
  << \* ^[\s]*(\d+)[.):\-\s]+([^0-9]+?)\s*[-–:]\s*(\d+(?:[.,]\d+)?)\s*(pieces?|...|qty)?
     <<Bol, Star(Space), Grp(1, <<Plus(Digit)>>),
       Plus({".", ")", ":", "-"} \cup Space), Grp(2, <<NotRepLazy(Digit, 1, -1)>>),
       Star(Space), One({"-", ":"}), Star(Space), Grp(3, Decimal), Star(Space),
       Opt(<<Grp(4, <<UnitWord>>)>>)>>,
     \* ^[\s]*(\d+)\s+([^\t]+?)\t+\s*(\d+(?:[.,]\d+)?)\s*(pieces?|pcs?|units?)?
     <<Bol, Star(Space), Grp(1, <<Plus(Digit)>>), Plus(Space),
       Grp(2, <<NotRepLazy({"\t"}, 1, -1)>>), Plus({"\t"}), Star(Space),
       Grp(3, Decimal), Star(Space), Opt(<<Grp(4, <<UnitWordShort>>)>>)>>,
     \* ^[\s]*(\d+)[.)\s]+(.+?)\s+(\d+)\s*(pieces?|...|qty)?[\s]*$
     <<Bol, Star(Space), Grp(1, <<Plus(Digit)>>), Plus({".", ")"} \cup Space),
       Grp(2, <<NotRepLazy(Dot, 1, -1)>>), Plus(Space), Grp(3, <<Plus(Digit)>>),
       Star(Space), Opt(<<Grp(4, <<UnitWord>>)>>), Star(Space), Eol>>,
     \* ^[\s]*(\d+)\s*\|?\s*([A-Z][A-Za-z\s\d\-\./]+)\s+(?:PFS|...|PCE)\s+(\d+[\d,]*)
     <<Bol, Star(Space), Grp(1, <<Plus(Digit)>>), Star(Space), Maybe({"|"}),
       Star(Space),
       Grp(2, <<One(Upper),
                Plus(Upper \cup Lower \cup Space \cup Digit \cup {"-", ".", "/"})>>),
       Plus(Space), PackWord, Plus(Space),
       Grp(3, <<Plus(Digit), Star(Digit \cup {","})>>)>> >>

\* (.{10,}?)\s+(\d+)\s*(pieces?|pcs?|units?|each|nos?|sets?|qty)\s*$
fallback_pattern ==
  <<Grp(1, <<NotRepLazy(Dot, 10, -1)>>), Plus(Space), Grp(2, <<Plus(Digit)>>),
    Star(Space), Grp(3, <<UnitWord>>), Star(Space), Eol>>

\* description[:500]
MaxDescription == 500

\* len(description) > 3
MinDescription == 3

\* len(description) > 5 in the fallback
MinFallbackDescription == 5

\* item.description.lower()[:100]
DedupKeyLen == 100

NewItem(item_number, description, quantity, unit, lang_info) ==
  [item_number |-> item_number,
   description |-> Prefix(description, MaxDescription),
   quantity |-> quantity,
   unit |-> unit,
   specifications |-> "",
   language |-> lang_info.language,
   has_arabic |-> lang_info.has_arabic]

\* TenderItem(...) with lang_info = detect_language(description)
TenderItem(item_number, description, quantity, unit) ==
  NewItem(item_number, description, quantity, unit, detect_language(description))

\* d with its first m - 1 characters dropped when m is a match, d otherwise
DropMatched(d, m) == IF m[1] THEN SubSeq(d, m[2], Len(d)) ELSE d

\* re.sub(r'^[\d\s\-\.]+', '', description)
StripLeadingNumber(d) ==
  DropMatched(d, reMatch(<<Bol, Plus(Digit \cup Space \cup {"-", "."})>>, d, FALSE))

\* re.sub(r'[^\d.,]', '', quantity)
CleanQuantity(q) ==
  Concat([i \in 1..Len(q) |->
            IF CharAt(q, i) \in Digit \cup {".", ","} THEN CharAt(q, i) ELSE ""],
         1, Len(q))

\* the index of the first pattern of item_patterns that matches the line, or 0
FirstPattern(line) ==
  LeastOr({p \in 1..Len(item_patterns) : reMatch(item_patterns[p], line, TRUE)[1]}, 0)

NoItem == NewItem("", "", "", "", [language |-> "unknown", has_arabic |-> FALSE])

\* the item of a structural match, when its cleaned description is accepted
StructuralItem(item_no, description, quantity, unit) ==
  IF Len(description) > MinDescription
  THEN [matched |-> TRUE, accepted |-> TRUE,
        item |-> TenderItem(item_no, description, quantity, lower(unit)),
        number |-> int(item_no)]
  ELSE [matched |-> TRUE, accepted |-> FALSE, item |-> NoItem, number |-> 0]

\* the body of `if match:` for the match m of pattern p; pattern 4 has three
\* groups, so that len(groups) > 3 is false for it
MatchedItem(line, p, m) ==
  StructuralItem(Group(line, m, 1),
                 StripLeadingNumber(strip(CollapseSpace(strip(Group(line, m, 2))))),
                 CleanQuantity(Group(line, m, 3)),
                 IF p # 4 /\ HasGroup(m, 4) /\ Group(line, m, 4) # ""
                 THEN Group(line, m, 4) ELSE "units")

\* the first matching pattern p applied
PatternItem(line, p) ==
  IF p = 0
  THEN [matched |-> FALSE, accepted |-> FALSE, item |-> NoItem, number |-> 0]
  ELSE MatchedItem(line, p, reMatch(item_patterns[p], line, TRUE))

\* `for pattern in item_patterns` on one line: whether a pattern matched (the
\* loop breaks at the first that does), whether its item was accepted, the item
\* and int(item_no)
StructuralMatch(line) == PatternItem(line, FirstPattern(line))

\* the body of `if qty_match:`
FallbackItem(qty_match, description, quantity, unit) ==
  IF qty_match[1] /\ Len(description) > MinFallbackDescription
     /\ ~is_garbage_line(description)
  THEN [accepted |-> TRUE, item |-> TenderItem("", description, quantity, lower(unit))]
  ELSE [accepted |-> FALSE, item |-> NoItem]

FallbackOf(line, qty_match) ==
  FallbackItem(qty_match, strip(Group(line, qty_match, 1)), Group(line, qty_match, 2),
               Group(line, qty_match, 3))

\* the fallback pattern on one line: whether it yields an item, and the item
\* but for its number
FallbackMatch(line) == FallbackOf(line, reSearch(fallback_pattern, line, TRUE))

\* the garbage and length tests, the structural patterns and the fallback
\* pattern on a stripped line
ScannedLine(line) ==
  [skipped |-> is_garbage_line(line) \/ Len(line) < MinLineLen,
   structural |-> StructuralMatch(line),
   fallback |-> FallbackMatch(line)]

\* What the loop body finds on a raw line, which does not depend on the items
\* found before it: line = line.strip(), then the tests and the patterns
Scanned(raw) == ScannedLine(strip(raw))

\* The lines the texts handed to extract_items are made of
ItemLines ==
  { "1. Surgical Gloves - 500 pieces",
    "2. Syringes 10ml - 1000 units",
    "Page 1 of 3",
    "3) SURGICAL gloves: 20 pcs",
    "Surgical gloves latex 500 pieces",
    "Sterile gauze swabs 200 units",
    "0. Cotton wool - 5 pcs",
    "7. " \o Times("a", DedupKeyLen) \o "bb - 5 sets",
    "8. " \o Times("A", DedupKeyLen) \o "cc - 6 sets" }

\* Scanned, computed once for each line of the inputs
ScanTable == {<<raw, Scanned(raw)>> : raw \in ItemLines \cup PageLines \cup {""}}

ScanOf(raw) == (CHOOSE e \in ScanTable : e[1] = raw)[2]

\* the end of `for pattern in item_patterns`: the state [items,
\* current_item_number] after it
StructuralStep(found, st) ==
  IF found.structural.accepted
  THEN [items |-> Append(st.items, found.structural.item),
        current_item_number |-> found.structural.number]
  ELSE st

\* the fallback block of the loop body
FallbackStep(found, st) ==
  IF (Len(st.items) = 0 \/ st.current_item_number = 0) /\ found.fallback.accepted
  THEN [items |-> Append(st.items,
                         [found.fallback.item EXCEPT
                            !.item_number = str(st.current_item_number + 1)]),
        current_item_number |-> st.current_item_number + 1]
  ELSE st

\* the loop body after the tests and the patterns
LoopStep(found, st) ==
  IF found.skipped THEN st ELSE FallbackStep(found, StructuralStep(found, st))

\* one iteration of `for line in lines`
LoopBody(raw, st) == LoopStep(ScanOf(raw), st)

\* A key that keeps the case of the description
DedupKeyCaseSensitive(item) == Prefix(item.description, DedupKeyLen)

\* key = item.description.lower()[:100]
DedupKey(item) == Prefix(lower(item.description), DedupKeyLen)

\* `for line in lines` from line n on
RECURSIVE ScanFrom(_, _, _)
ScanFrom(ls, n, st) ==
  IF n > Len(ls) THEN st ELSE ScanFrom(ls, n + 1, LoopBody(ls[n], st))

\* `for item in items` from item n on
RECURSIVE DedupFrom(_, _, _, _)
DedupFrom(its, n, unique, keys) ==
  IF n > Len(its) THEN unique
  ELSE IF DedupKey(its[n]) \in keys THEN DedupFrom(its, n + 1, unique, keys)
  ELSE DedupFrom(its, n + 1, Append(unique, its[n]), keys \cup {DedupKey(its[n])})

\* the whole of extract_items, as process_pdf calls it
extract_items(t) ==
  DedupFrom(ScanFrom(split(t, "\n"), 1, [items |-> <<>>, current_item_number |-> 0]).items,
            1, <<>>, {})

\* Bound: the number of lines of a text handed to extract_items
MaxLines == 3

ItemTexts ==
  {join("\n", ls) : ls \in UNION {[1..n -> ItemLines] : n \in 1..MaxLines}}
    \cup {"1. Surgical Gloves - 500 pieces\n2. Syringes 10ml - 1000 units\nPage 1 of 3\n"}

\* the variables of extract_items before the call
ItemsIdle ==
  /\ lines = <<>>
  /\ idx = 0
  /\ items = <<>>
  /\ current_item_number = 0
  /\ unique_items = <<>>
  /\ seen = {}

\* the variables of a run of main or process_pdf when there is no such run
PdfIdle ==
  /\ args = <<>>
  /\ world = <<>>
  /\ caller = ""
  /\ images = <<>>
  /\ all_text = <<>>
  /\ confidences = <<>>
  /\ confidence = <<0, 1>>
  /\ result = <<>>
  /\ output = <<>>

InitItems ==
  /\ pc = "extract_items"
  /\ text \in ItemTexts
  /\ filename = ""
  /\ parts = <<>>
  /\ ret = <<>>
  /\ ItemsIdle
  /\ PdfIdle

\* items = []; lines = text.split('\n'); current_item_number = 0
ItemsEnter ==
  /\ pc = "extract_items"
  /\ lines' = split(text, "\n")
  /\ idx' = 0
  /\ items' = <<>>
  /\ current_item_number' = 0
  /\ pc' = "scan"
  /\ UNCHANGED <<argVars, ret, unique_items, seen, pdfVars>>

\* one iteration of `for line in lines`
ScanLine ==
  /\ pc = "scan"
  /\ idx < Len(lines)
  /\ \E st \in {LoopBody(lines[idx + 1],
                         [items |-> items, current_item_number |-> current_item_number])} :
        /\ items' = st.items
        /\ current_item_number' = st.current_item_number
  /\ idx' = idx + 1
  /\ UNCHANGED <<pc, argVars, ret, lines, unique_items, seen, pdfVars>>

\* the scan is over: unique_items = []; seen = set()
ScanEnd ==
  /\ pc = "scan"
  /\ idx = Len(lines)
  /\ pc' = "dedup"
  /\ idx' = 0
  /\ unique_items' = <<>>
  /\ seen' = {}
  /\ UNCHANGED <<argVars, ret, lines, items, current_item_number, pdfVars>>

\* one iteration of `for item in items`
DedupStep ==
  /\ pc = "dedup"
  /\ idx < Len(items)
  /\ \E key \in {DedupKey(items[idx + 1])} :
        IF key \notin seen
        THEN /\ seen' = seen \cup {key}
             /\ unique_items' = Append(unique_items, items[idx + 1])
        ELSE UNCHANGED <<seen, unique_items>>
  /\ idx' = idx + 1
  /\ UNCHANGED <<pc, argVars, ret, lines, items, current_item_number, pdfVars>>

\* return unique_items
ItemsReturn ==
  /\ pc = "dedup"
  /\ idx = Len(items)
  /\ ret' = unique_items
  /\ pc' = "done"
  /\ UNCHANGED <<argVars, itemVars, pdfVars>>

NextItems == ItemsEnter \/ ScanLine \/ ScanEnd \/ DedupStep \/ ItemsReturn

SpecItems == InitItems /\ [][NextItems]_vars

(***************************************************************************)
(* TenderExtractor.process_pdf and main                                    *)
(*                                                                         *)
(* args is the parsed command line of main, or the arguments of a direct   *)
(* call of process_pdf (caller = "library"): file (pdf_path, "" when       *)
(* --file is absent), max_pages (0 for none), include_text and check.  The *)
(* OCR languages, the dpi and the output layout do not reach the parser    *)
(* and are left out; extraction_timestamp is the clock's and is left out.  *)
(* world is what the run finds: whether the dependencies are ready,        *)
(* whether the file exists, whether its rasterization raises, its pages,   *)
(* and where an exception other than the OCR stage's is raised ("none",    *)
(* "constructor": TenderExtractor(...) raises, "print": serializing or     *)
(* printing the output raises).                                            *)
(***************************************************************************)
DefaultDepartment == "Biomedical Engineering"

PdfPaths == {"/data/25MS1234_tender.pdf", "scan.pdf"}

\* os.path.basename(path)
basename(path) ==
  SubSeq(path, 1 + Greatest({0} \cup {i \in 1..Len(path) : CharAt(path, i) = "/"}),
         Len(path))

\* TenderData(): the defaults of the dataclass
TenderData ==
  [reference_number |-> "", title |-> "", closing_date |-> "", posting_date |-> "",
   department |-> "", items |-> <<>>, specifications_text |-> "", items_count |-> 0,
   ocr_confidence |-> Zero, source_files |-> <<>>, extraction_method |-> "ocr",
   language |-> "unknown", has_arabic_content |-> FALSE, raw_text |-> "", errors |-> <<>>]

\* the calls of the parser in process_pdf on text t of the file named f
ParseText(t, f) ==
  [lang_info |-> detect_language(t),
   items |-> extract_items(t),
   reference_number |-> extract_reference_number(t, f),
   closing_date |-> extract_closing_date(t),
   posting_date |-> extract_posting_date(t),
   specifications_text |-> extract_specifications(t)]

\* ParseText, computed once for each text and file name of the inputs
ParseTable ==
  {<<t, f, ParseText(t, f)>> : t \in PdfTexts, f \in {basename(path) : path \in PdfPaths}}

ParseOf(t, f) == (CHOOSE e \in ParseTable : e[1] = t /\ e[2] = f)[3]

\* the record process_pdf returns for an empty text
EmptyRecord(f, department) ==
  [TenderData EXCEPT !.reference_number = extract_reference_number("", f),
                     !.department = department,
                     !.source_files = <<f>>,
                     !.errors = <<"Failed to extract text from PDF">>]

\* the record process_pdf returns for a text
ParsedRecord(t, f, department, conf, include_raw_text, parsed) ==
  [TenderData EXCEPT !.reference_number = parsed.reference_number,
                     !.closing_date = parsed.closing_date,
                     !.posting_date = parsed.posting_date,
                     !.department = department,
                     !.items = parsed.items,
                     !.specifications_text = parsed.specifications_text,
                     !.items_count = Len(parsed.items),
                     !.ocr_confidence = conf,
                     !.source_files = <<f>>,
                     !.language = parsed.lang_info.language,
                     !.has_arabic_content = parsed.lang_info.has_arabic,
                     !.raw_text = IF include_raw_text THEN t ELSE ""]

\* print(json.dumps(error_result)); sys.exit(1)
Failure(error) == [json |-> [success |-> FALSE, error |-> error], exit_code |-> 1]

\* print(json.dumps(output)) and the return of main
Success(data) == [json |-> [success |-> TRUE, data |-> data], exit_code |-> 0]

\* The files a run may find
Files ==
  [exists : {FALSE}, raster_fails : {FALSE}, pages : {<<>>}]
    \cup [exists : {TRUE}, raster_fails : {TRUE}, pages : {<<>>}]
    \cup [exists : {TRUE}, raster_fails : {FALSE},
          pages : UNION {[1..n -> ReadablePages \cup {FailPage}] : n \in 0..MaxPdfPages}]

InitPdf ==
  /\ caller \in {"main", "library"}
  /\ pc = IF caller = "main" THEN "main" ELSE "process_pdf"
  /\ args \in [check : BOOLEAN, file : PdfPaths \cup {""}, department : {DefaultDepartment},
               max_pages : {0, 1}, include_text : BOOLEAN]
  /\ \E file \in Files, ready \in BOOLEAN, raises \in {"none", "constructor", "print"} :
       world = [ready |-> ready, exists |-> file.exists, raster_fails |-> file.raster_fails,
                pages |-> file.pages, raises |-> raises]
  /\ args.file = "" => ~world.exists
  /\ caller = "library" =>
       ~args.check /\ args.file # "" /\ world.ready /\ world.raises = "none"
  /\ text = ""
  /\ filename = ""
  /\ parts = <<>>
  /\ ret = <<>>
  /\ images = <<>>
  /\ all_text = <<>>
  /\ confidences = <<>>
  /\ confidence = Zero
  /\ result = <<>>
  /\ output = <<>>
  /\ ItemsIdle

\* if args.check: print(json.dumps(deps, indent=2)); sys.exit(0 if deps['ready'] else 1)
MainCheck ==
  /\ pc = "main"
  /\ args.check
  /\ output' = [json |-> [ready |-> world.ready],
                exit_code |-> IF world.ready THEN 0 ELSE 1]
  /\ pc' = "exit"
  /\ UNCHANGED <<argVars, ret, itemVars, inputVars, ocrVars, confidence, result>>

\* if not deps['ready']
MainMissingDependencies ==
  /\ pc = "main"
  /\ ~args.check
  /\ ~world.ready
  /\ output' = Failure("Missing dependencies")
  /\ pc' = "exit"
  /\ UNCHANGED <<argVars, ret, itemVars, inputVars, ocrVars, confidence, result>>

\* if not args.file
MainNoFile ==
  /\ pc = "main"
  /\ ~args.check
  /\ world.ready
  /\ args.file = ""
  /\ output' = Failure("No file specified. Use --file /path/to/pdf.pdf")
  /\ pc' = "exit"
  /\ UNCHANGED <<argVars, ret, itemVars, inputVars, ocrVars, confidence, result>>

\* if not os.path.exists(args.file)
MainFileNotFound ==
  /\ pc = "main"
  /\ ~args.check
  /\ world.ready
  /\ args.file # ""
  /\ ~world.exists
  /\ output' = Failure("File not found: " \o args.file)
  /\ pc' = "exit"
  /\ UNCHANGED <<argVars, ret, itemVars, inputVars, ocrVars, confidence, result>>

\* try: extractor = TenderExtractor(languages=languages, dpi=args.dpi), then
\* the call of process_pdf
MainTry ==
  /\ pc = "main"
  /\ ~args.check
  /\ world.ready
  /\ args.file # ""
  /\ world.exists
  /\ pc' = IF world.raises = "constructor" THEN "except" ELSE "process_pdf"
  /\ UNCHANGED <<argVars, ret, itemVars, pdfVars>>

\* process_pdf: filename = os.path.basename(pdf_path), then the call of
\* extract_text_from_pdf
ProcessPdf ==
  /\ pc = "process_pdf"
  /\ filename' = basename(args.file)
  /\ pc' = "extract_text"
  /\ UNCHANGED <<text, parts, ret, itemVars, pdfVars>>

\* extract_text_from_pdf: if not os.path.exists(pdf_path): return "", 0.0
OcrNotFound ==
  /\ pc = "extract_text"
  /\ ~world.exists
  /\ text' = ""
  /\ confidence' = Zero
  /\ pc' = "text"
  /\ UNCHANGED <<filename, parts, ret, itemVars, inputVars, ocrVars, result, output>>

\* images = convert_from_path(...); all_text = []; confidences = []
OcrConvert ==
  /\ pc = "extract_text"
  /\ world.exists
  /\ ~world.raster_fails
  /\ images' = convert_from_path(world.pages, PageLimit(args.max_pages))
  /\ all_text' = <<>>
  /\ confidences' = <<>>
  /\ pc' = "pages"
  /\ UNCHANGED <<argVars, ret, itemVars, inputVars, confidence, result, output>>

\* An exception of convert_from_path left uncaught by extract_text_from_pdf
OcrConvertRaises ==
  /\ pc = "extract_text"
  /\ world.exists
  /\ world.raster_fails
  /\ pc' = "except"
  /\ UNCHANGED <<argVars, ret, itemVars, pdfVars>>

\* convert_from_path raises: except Exception: return "", 0.0
OcrConvertFails ==
  /\ pc = "extract_text"
  /\ world.exists
  /\ world.raster_fails
  /\ text' = ""
  /\ confidence' = Zero
  /\ pc' = "text"
  /\ UNCHANGED <<filename, parts, ret, itemVars, inputVars, ocrVars, result, output>>

\* An iteration that counts a page without kept words as a page of average 0
OcrPageCountsEveryPage ==
  /\ pc = "pages"
  /\ Len(all_text) < Len(images)
  /\ ~images[Len(all_text) + 1].fails
  /\ \E confs \in {page_confidences(images[Len(all_text) + 1].words)} :
       confidences' = Append(confidences,
                             IF Len(confs) > 0 THEN PageAverage(confs) ELSE Zero)
  /\ all_text' = Append(all_text, PageText(images[Len(all_text) + 1].words))
  /\ UNCHANGED <<pc, argVars, ret, itemVars, inputVars, images, confidence, result, output>>

\* one iteration of `for i, image in enumerate(images, 1)`
OcrPage ==
  /\ pc = "pages"
  /\ Len(all_text) < Len(images)
  /\ ~images[Len(all_text) + 1].fails
  /\ \E confs \in {page_confidences(images[Len(all_text) + 1].words)} :
       confidences' = IF Len(confs) > 0 THEN Append(confidences, PageAverage(confs))
                      ELSE confidences
  /\ all_text' = Append(all_text, PageText(images[Len(all_text) + 1].words))
  /\ UNCHANGED <<pc, argVars, ret, itemVars, inputVars, images, confidence, result, output>>

\* preprocessing or recognition of the page raises: except Exception: return "", 0.0
OcrPageFails ==
  /\ pc = "pages"
  /\ Len(all_text) < Len(images)
  /\ images[Len(all_text) + 1].fails
  /\ text' = ""
  /\ confidence' = Zero
  /\ pc' = "text"
  /\ UNCHANGED <<filename, parts, ret, itemVars, inputVars, ocrVars, result, output>>

\* full_text = PAGE_BREAK.join(all_text); avg_confidence = mean or 0.0; return
OcrReturn ==
  /\ pc = "pages"
  /\ Len(all_text) = Len(images)
  /\ text' = join(PAGE_BREAK, all_text)
  /\ confidence' = IF Len(confidences) > 0 THEN Mean(confidences) ELSE Zero
  /\ pc' = "text"
  /\ UNCHANGED <<filename, parts, ret, itemVars, inputVars, ocrVars, result, output>>

\* process_pdf: if not text: return TenderData(... errors=[...])
ProcessEmpty ==
  /\ pc = "text"
  /\ text = ""
  /\ result' = EmptyRecord(filename, args.department)
  /\ pc' = "returned"
  /\ UNCHANGED <<argVars, ret, itemVars, inputVars, ocrVars, confidence, output>>

\* process_pdf: the parse of the text and the record returned
ProcessParse ==
  /\ pc = "text"
  /\ text # ""
  /\ \E parsed \in {ParseOf(text, filename)} :
       result' = ParsedRecord(text, filename, args.department, confidence,
                              args.include_text, parsed)
  /\ pc' = "returned"
  /\ UNCHANGED <<argVars, ret, itemVars, inputVars, ocrVars, confidence, output>>

\* main: output = {"success": True, "data": result.to_dict()}; print(json.dumps(output))
MainPrint ==
  /\ pc = "returned"
  /\ caller = "main"
  /\ IF world.raises = "print"
     THEN pc' = "except" /\ UNCHANGED output
     ELSE pc' = "exit" /\ output' = Success(result)
  /\ UNCHANGED <<argVars, ret, itemVars, inputVars, ocrVars, confidence, result>>

\* main: except Exception as e: print(json.dumps(error_result)); sys.exit(1)
MainExcept ==
  /\ pc = "except"
  /\ output' = Failure("exception")
  /\ pc' = "exit"
  /\ UNCHANGED <<argVars, ret, itemVars, inputVars, ocrVars, confidence, result>>

NextPdf ==
  \/ MainCheck
  \/ MainMissingDependencies
  \/ MainNoFile
  \/ MainFileNotFound
  \/ MainTry
  \/ ProcessPdf
  \/ OcrNotFound
  \/ OcrConvert
  \/ OcrConvertFails
  \/ OcrPage
  \/ OcrPageFails
  \/ OcrReturn
  \/ ProcessEmpty
  \/ ProcessParse
  \/ MainPrint
  \/ MainExcept

SpecPdf == InitPdf /\ [][NextPdf]_vars

(***************************************************************************)
(* C1.  The list extract_items returns holds no two items whose lower-     *)
(* cased first-100-character description prefixes are equal; of the        *)
(* scanned items sharing such a prefix exactly the first in scan order is  *)
(* kept, and the kept items are in the order they were scanned in.         *)
(***************************************************************************)
\* the lower-cased first-100-character prefix of a description
PrefixKey(item) == lower(Prefix(item.description, DedupKeyLen))

\* the scanned items that no earlier scanned item shares the prefix of
FirstOfPrefix ==
  {i \in 1..Len(items) : \A j \in 1..(i - 1) : PrefixKey(items[j]) # PrefixKey(items[i])}

\* the n-th of them in scan order
NthFirst(n) ==
  CHOOSE i \in FirstOfPrefix : Cardinality({j \in FirstOfPrefix : j <= i}) = n

C1_DedupKeepsFirst ==
  pc = "done" =>
    /\ \A i, j \in 1..Len(ret) : i # j => PrefixKey(ret[i]) # PrefixKey(ret[j])
    /\ Len(ret) = Cardinality(FirstOfPrefix)
    /\ \A n \in 1..Len(ret) : ret[n] = items[NthFirst(n)]

\* three items were scanned, the first and the third differ beyond their
\* common first 100 characters, and the third was dropped
C1_Witness ==
  /\ pc = "done"
  /\ Len(items) = 3
  /\ Len(ret) = 2
  /\ Len(items[1].description) > DedupKeyLen
  /\ items[1].description # items[3].description
  /\ PrefixKey(items[1]) = PrefixKey(items[3])
  /\ PrefixKey(items[1]) # PrefixKey(items[2])

(***************************************************************************)
(* C2.  A numbered line `<n>. <description> - <quantity> <unit>` yields    *)
(* the item (n, description, quantity, unit), the description without the  *)
(* separator, also when the description holds digits: the text of the      *)
(* specification's example yields exactly its two items.                   *)
(***************************************************************************)
Fields(item) == <<item.item_number, item.description, item.quantity, item.unit>>

C2_NumberedDashLines ==
  (pc = "done"
   /\ text = "1. Surgical Gloves - 500 pieces\n2. Syringes 10ml - 1000 units\nPage 1 of 3\n")
    => /\ Len(ret) = 2
       /\ Fields(ret[1]) = <<"1", "Surgical Gloves", "500", "pieces">>
       /\ Fields(ret[2]) = <<"2", "Syringes 10ml", "1000", "units">>

(***************************************************************************)
(* C10.  In a text no line of which matches a structural pattern, every    *)
(* line that is not garbage and that the fallback pattern accepts yields   *)
(* an item, the k-th of these lines the item numbered k.                   *)
(***************************************************************************)
\* the lines, in order, that are not skipped and that the fallback accepts
RECURSIVE FallbackLines(_)
FallbackLines(ls) ==
  IF Len(ls) = 0 THEN <<>>
  ELSE (IF ~Scanned(Head(ls)).skipped /\ Scanned(Head(ls)).fallback.accepted
        THEN <<Scanned(Head(ls)).fallback.item>> ELSE <<>>)
       \o FallbackLines(Tail(ls))

NoStructuralLine ==
  \A n \in 1..Len(lines) :
    Scanned(lines[n]).skipped \/ ~Scanned(lines[n]).structural.matched

C10_FallbackOnEveryLine ==
  (pc = "dedup" /\ NoStructuralLine) =>
    /\ Len(items) = Len(FallbackLines(lines))
    /\ \A k \in 1..Len(items) :
         /\ items[k].item_number = str(k)
         /\ items[k].description = FallbackLines(lines)[k].description

(***************************************************************************)
(* Calls of the pure functions of TenderParser: the argument is drawn from *)
(* a bounded set and the call returns in one step.                         *)
(***************************************************************************)
\* the variables a call of a pure function does not touch
PureIdle == ItemsIdle /\ PdfIdle

\* every sequence of 1..n members of S
SeqsUpTo(S, n) == UNION {[1..k -> S] : k \in 1..n}

\* ---- is_garbage_line ----------------------------------------------------
\* Bound: the length of a line handed to is_garbage_line
MaxLineLen == 6

\* The characters the lines are made of
LineAlphabet == {"7", " ", "-", "/", "a"}

GarbageLines ==
  {""} \cup {Concat(w, 1, Len(w)) : w \in SeqsUpTo(LineAlphabet, MaxLineLen)}

InitGarbage ==
  /\ pc = "is_garbage_line"
  /\ text \in GarbageLines
  /\ filename = ""
  /\ parts = <<>>
  /\ ret = <<>>
  /\ PureIdle

GarbageCall ==
  /\ pc = "is_garbage_line"
  /\ ret' = is_garbage_line(text)
  /\ pc' = "done"
  /\ UNCHANGED <<argVars, itemVars, pdfVars>>

NextGarbage == GarbageCall

SpecGarbage == InitGarbage /\ [][NextGarbage]_vars

\* ---- extract_closing_date -----------------------------------------------
\* Bound: the number of fragments of a text handed to extract_closing_date
MaxFragments == 3

\* The fragments the texts are made of, each with the label pattern that
\* matches it and the date it carries
ClosingFragments ==
  { [s |-> "Closing Date: 15/03/2025", label |-> "explicit", date |-> "15/03/2025"],
    [s |-> "Closing Date: 20/03/2025", label |-> "explicit", date |-> "20/03/2025"],
    [s |-> "Deadline 1.2.24", label |-> "explicit", date |-> "1/2/24"],
    [s |-> "closes on 20-03-25", label |-> "loose", date |-> "20/03/25"],
    [s |-> "issued 01/01/2024", label |-> "bare", date |-> "01/01/2024"],
    [s |-> "see notes", label |-> "none", date |-> ""] }

InitClosing ==
  /\ pc = "extract_closing_date"
  /\ parts \in SeqsUpTo(ClosingFragments, MaxFragments)
  /\ text = join("\n", [i \in 1..Len(parts) |-> parts[i].s])
  /\ filename = ""
  /\ ret = <<>>
  /\ PureIdle

ClosingCall ==
  /\ pc = "extract_closing_date"
  /\ ret' = extract_closing_date(text)
  /\ pc' = "done"
  /\ UNCHANGED <<argVars, itemVars, pdfVars>>

NextClosing == ClosingCall

SpecClosing == InitClosing /\ [][NextClosing]_vars

\* ---- extract_reference_number -------------------------------------------
\* Bound: the length of each run of digits or letters in a generated filename
MaxRun == 5

RefFilenames ==
  {"", "25MS1234_tender.pdf", "tender.pdf"}
    \cup {Times("2", d) \o Times(c, l) \o Times("3", e) \o ".pdf" :
            d \in 0..MaxRun, l \in 0..MaxRun, e \in 0..MaxRun, c \in {"M", "m"}}

RefTexts ==
  {"", "Tender No: 11AB22", "Reference: 5xyz123", "offer 9tn99 attached", "no reference here"}

InitRef ==
  /\ pc = "extract_reference_number"
  /\ text \in RefTexts
  /\ filename \in RefFilenames
  /\ parts = <<>>
  /\ ret = <<>>
  /\ PureIdle

RefCall ==
  /\ pc = "extract_reference_number"
  /\ ret' = extract_reference_number(text, filename)
  /\ pc' = "done"
  /\ UNCHANGED <<argVars, itemVars, pdfVars>>

NextRef == RefCall

SpecRef == InitRef /\ [][NextRef]_vars

\* ---- detect_language ----------------------------------------------------
\* Bounds: the numbers of Arabic letters, of blanks and of Latin letters in a
\* text handed to detect_language
MaxArabic == 3

MaxBlank == 1

MaxLatin == 20

InitLang ==
  /\ pc = "detect_language"
  /\ parts \in (0..MaxArabic) \X (0..MaxBlank) \X (0..MaxLatin)
  /\ text = Times("~", parts[1]) \o Times(" ", parts[2]) \o Times("x", parts[3])
  /\ filename = ""
  /\ ret = <<>>
  /\ PureIdle

LangCall ==
  /\ pc = "detect_language"
  /\ ret' = detect_language(text)
  /\ pc' = "done"
  /\ UNCHANGED <<argVars, itemVars, pdfVars>>

NextLang == LangCall

SpecLang == InitLang /\ [][NextLang]_vars

\* ---- extract_specifications ---------------------------------------------
\* Bounds: the number of labelled sections of a text handed to
\* extract_specifications, and how far the length of a section body lies from
\* the two limits
MaxSections == 2

MaxExtra == 1

SectionLabels == <<"Specifications: ", "Requirements: ", "Description: ">>

\* A section: the label, the length n of the whitespace-collapsed body, the
\* number w of extra blanks in the whitespace run of the body, and whether a
\* terminator follows.  The bodies are as long as the lower limit, give or
\* take MaxExtra, or as long as the upper limit or up to MaxExtra longer.
ShortSections ==
  [label : 1..Len(SectionLabels), n : (MinSpecs - MaxExtra)..(MinSpecs + MaxExtra),
   w : 0..MaxBlank, closed : BOOLEAN]

LongSections ==
  [label : 1..Len(SectionLabels), n : MaxSpecs..(MaxSpecs + MaxExtra),
   w : {0}, closed : {TRUE}]

Sections == ShortSections \cup LongSections

\* the body of a section as it stands in the text
RawBody(sec) == "x" \o Times(" ", 1 + sec.w) \o Times("x", sec.n - 2)

SectionText(sec) ==
  SectionLabels[sec.label] \o RawBody(sec) \o (IF sec.closed THEN " Terms " ELSE "")

InitSpecs ==
  /\ pc = "extract_specifications"
  /\ parts \in SeqsUpTo(Sections, MaxSections)
  /\ \A i \in 1..(Len(parts) - 1) : parts[i].closed /\ parts[i] \in ShortSections
  /\ text = Concat([i \in 1..Len(parts) |-> SectionText(parts[i])], 1, Len(parts))
  /\ filename = ""
  /\ ret = <<>>
  /\ PureIdle

SpecsCall ==
  /\ pc = "extract_specifications"
  /\ ret' = extract_specifications(text)
  /\ pc' = "done"
  /\ UNCHANGED <<argVars, itemVars, pdfVars>>

NextSpecs == SpecsCall

SpecSpecs == InitSpecs /\ [][NextSpecs]_vars

(***************************************************************************)
(* C5.  extract_closing_date tries its patterns in order (explicit closing *)
(* date labels, then loose close/deadline labels, then a bare dd/dd/dddd)  *)
(* and returns the last match of the first pattern that has a match, with  *)
(* '-' and '.' replaced by '/'; a bare date is used only when no labelled  *)
(* pattern matches, and "" is returned when nothing matches.               *)
(***************************************************************************)
\* the date of the last fragment of the label, "" when there is none
LastDated(frs, label) ==
  IF \E i \in 1..Len(frs) : frs[i].label = label
  THEN frs[Greatest({i \in 1..Len(frs) : frs[i].label = label})].date
  ELSE ""

C5_LastMatchOfFirstPattern ==
  pc = "done" =>
    ret = IF LastDated(parts, "explicit") # "" THEN LastDated(parts, "explicit")
          ELSE IF LastDated(parts, "loose") # "" THEN LastDated(parts, "loose")
          ELSE LastDated(parts, "bare")

\* Two explicit closing dates after a bare date: the later explicit one is returned
C5_Witness ==
  /\ pc = "done"
  /\ text = "issued 01/01/2024\nClosing Date: 15/03/2025\nClosing Date: 20/03/2025"
  /\ ret = "20/03/2025"

(***************************************************************************)
(* C6.  As stated: for every line made only of digits, whitespace and      *)
(* punctuation characters (any punctuation, any length), is_garbage_line   *)
(* returns true.                                                           *)
(***************************************************************************)
\* The ASCII punctuation characters ("~" and "^" stand for Arabic letters in
\* this module and are left out, and so is the grave accent, which a string
\* of this language cannot hold)
Punctuation ==
  {"!", "\"", "#", "$", "%", "&", "'", "(", ")", "*", "+", ",", "-", ".", "/", ":", ";",
   "<", "=", ">", "?", "@", "[", "\\", "]", "_", "{", "|", "}"}

MadeOf(s, cs) == \A i \in 1..Len(s) : CharAt(s, i) \in cs

C6_AnyPunctuationIsGarbage ==
  (pc = "done" /\ MadeOf(text, Digit \cup Space \cup Punctuation)) => ret = TRUE

(***************************************************************************)
(* C6 (amended).  For every line made only of digits, whitespace and the   *)
(* punctuation characters '-', '.' and ',' (any length, the empty line     *)
(* included), is_garbage_line returns true.                                *)
(***************************************************************************)
C6_DashDotCommaIsGarbage ==
  (pc = "done" /\ MadeOf(text, Digit \cup Space \cup {"-", ".", ","})) => ret = TRUE

\* A line of digits, blanks and dashes, long enough to pass the length test
C6_Witness ==
  /\ pc = "done"
  /\ Len(strip(text)) >= MinLineLen
  /\ MadeOf(text, Digit \cup Space \cup {"-", ".", ","})
  /\ \E i \in 1..Len(text) : CharAt(text, i) = "-"
  /\ \E i \in 1..Len(text) : CharAt(text, i) \in Digit
  /\ ret = TRUE

(***************************************************************************)
(* C7.  extract_reference_number returns the filename's reference code     *)
(* whenever the filename contains 1-2 digits, 2-3 upper-case letters and   *)
(* 2-4 digits in a row, whatever the text; the value returned is always    *)
(* upper-case or the empty string.                                         *)
(***************************************************************************)
\* the shapes <<digits, letters, digits>> of the codes that start at position i of f
CodeShapes(f, i) ==
  {sh \in (1..2) \X (2..3) \X (2..4) :
     /\ i + sh[1] + sh[2] + sh[3] - 1 <= Len(f)
     /\ MadeOf(SubSeq(f, i, i + sh[1] - 1), Digit)
     /\ MadeOf(SubSeq(f, i + sh[1], i + sh[1] + sh[2] - 1), Upper)
     /\ MadeOf(SubSeq(f, i + sh[1] + sh[2], i + sh[1] + sh[2] + sh[3] - 1), Digit)}

HasCode(f) == \E i \in 1..Len(f) : CodeShapes(f, i) # {}

\* the longest shape, the earlier runs counting first
LongestShape(S) ==
  CHOOSE x \in S : \A y \in S :
    \/ x[1] > y[1]
    \/ x[1] = y[1] /\ x[2] > y[2]
    \/ x[1] = y[1] /\ x[2] = y[2] /\ x[3] >= y[3]

CodeAt(f, i, sh) == SubSeq(f, i, i + sh[1] + sh[2] + sh[3] - 1)

\* the leftmost code of f
FilenameCode(f) ==
  CodeAt(f, Least({i \in 1..Len(f) : CodeShapes(f, i) # {}}),
         LongestShape(CodeShapes(f, Least({i \in 1..Len(f) : CodeShapes(f, i) # {}}))))

C7_FilenameCodeWins ==
  pc = "done" =>
    /\ HasCode(filename) => ret = FilenameCode(filename)
    /\ \A i \in 1..Len(ret) : CharAt(ret, i) \notin Lower

\* The filename and the text both carry a code: the filename's is returned
C7_Witness ==
  /\ pc = "done"
  /\ filename = "25MS1234_tender.pdf"
  /\ text = "Tender No: 11AB22"
  /\ ret = "25MS1234"

(***************************************************************************)
(* C8.  For a text with a Arabic-range characters among t non-whitespace   *)
(* characters, detect_language returns 'unknown' iff t = 0, otherwise      *)
(* 'arabic' iff a/t > 0.30, 'mixed' iff 0.05 < a/t <= 0.30 and 'english'   *)
(* otherwise; the ratio reported is a/t (0 when t = 0) and lies in [0, 1]; *)
(* has_arabic is true iff a > 0.                                           *)
(***************************************************************************)
\* the numbers a and t of the text, as it was put together
ArabicCount == parts[1]

NonBlankCount == parts[1] + parts[3]

C8_LanguageThresholds ==
  pc = "done" =>
    /\ ret.language = "unknown" <=> NonBlankCount = 0
    /\ NonBlankCount > 0 =>
         /\ ret.language = "arabic" <=> 10 * ArabicCount > 3 * NonBlankCount
         /\ ret.language = "mixed" <=>
              (100 * ArabicCount > 5 * NonBlankCount /\ 10 * ArabicCount <= 3 * NonBlankCount)
         /\ ret.language = "english" <=> 100 * ArabicCount <= 5 * NonBlankCount
         /\ ret.arabic_ratio[1] * NonBlankCount = ArabicCount * ret.arabic_ratio[2]
    /\ ret.arabic_ratio[2] > 0
    /\ 0 <= ret.arabic_ratio[1] /\ ret.arabic_ratio[1] <= ret.arabic_ratio[2]
    /\ ret.has_arabic <=> ArabicCount > 0

\* One Arabic letter in twenty characters: english, with has_arabic true
C8_Witness ==
  /\ pc = "done"
  /\ ArabicCount = 1
  /\ NonBlankCount = 20
  /\ ret.language = "english"
  /\ ret.has_arabic

(***************************************************************************)
(* C9.  extract_specifications walks its label patterns in order and       *)
(* returns the whitespace-collapsed capture of the first pattern whose     *)
(* collapsed capture is longer than 50 characters, cut to 2000 characters; *)
(* a pattern whose capture has 50 characters or fewer does not stop the    *)
(* search; the result is "" or a string of 51..2000 characters.            *)
(***************************************************************************)
\* the body of a section with every whitespace run collapsed to one blank
CollapsedBody(sec) == "x " \o Times("x", sec.n - 2)

\* the first section of the label, 0 when there is none
FirstWithLabel(secs, label) ==
  LeastOr({i \in 1..Len(secs) : secs[i].label = label}, 0)

\* what the sections make the labels from `label` on yield
RECURSIVE SectionResult(_, _)
SectionResult(secs, label) ==
  IF label > Len(SectionLabels) THEN ""
  ELSE IF FirstWithLabel(secs, label) # 0 /\ secs[FirstWithLabel(secs, label)].n > 50
       THEN SubSeq(CollapsedBody(secs[FirstWithLabel(secs, label)]), 1,
                   IF secs[FirstWithLabel(secs, label)].n > 2000 THEN 2000
                   ELSE secs[FirstWithLabel(secs, label)].n)
       ELSE SectionResult(secs, label + 1)

C9_FirstLongCapture ==
  pc = "done" =>
    /\ ret = SectionResult(parts, 1)
    /\ ret = "" \/ (Len(ret) >= 51 /\ Len(ret) <= 2000)

\* A Specifications section too short to count, then a Requirements section
\* longer than the limit: the second is returned, cut to the limit
C9_Witness ==
  /\ pc = "done"
  /\ Len(parts) = 2
  /\ parts[1].label = 1 /\ parts[1].n <= 50 /\ parts[1].w > 0
  /\ parts[2].label = 2 /\ parts[2].n > 2000
  /\ Len(ret) = 2000

(***************************************************************************)
(* C3.  Whenever the OCR stage yields no recognized word for a PDF (the    *)
(* file is missing, rasterization or recognition raises, or every page,    *)
(* however many there are, has no kept word), process_pdf returns a record *)
(* with items_count = 0, no items and errors = ["Failed to extract text    *)
(* from PDF"]; errors is empty only when at least one word was kept.       *)
(***************************************************************************)
\* the pages of the file the OCR stage gets to
PagesRead ==
  SubSeq(world.pages, 1,
         IF args.max_pages = 0 \/ Len(world.pages) < args.max_pages
         THEN Len(world.pages) ELSE args.max_pages)

\* the OCR stage runs to its end
OcrCompletes ==
  /\ world.exists
  /\ ~world.raster_fails
  /\ \A i \in 1..Len(PagesRead) : ~PagesRead[i].fails

\* a word of a page read has a positive confidence and a non-blank text
SomeWordKept ==
  \E i \in 1..Len(PagesRead) : \E j \in 1..Len(PagesRead[i].words) :
    /\ PagesRead[i].words[j].conf > 0
    /\ \E k \in 1..Len(PagesRead[i].words[j].text) :
         CharAt(PagesRead[i].words[j].text, k) \notin Space

WordRecognized == OcrCompletes /\ SomeWordKept

C3_NoWordMeansError ==
  pc = "returned" =>
    /\ ~WordRecognized =>
         /\ result.items_count = 0
         /\ result.items = <<>>
         /\ result.errors = <<"Failed to extract text from PDF">>
    /\ result.errors = <<>> => WordRecognized

(***************************************************************************)
(* C4.  As stated: in every run of main the outcome is success:false with  *)
(* exit code 1 exactly when the dependencies are not ready, no file is     *)
(* specified, the file does not exist or an unexpected exception escapes   *)
(* processing; an OCR-stage failure on an existing file, or a parse that   *)
(* finds no items or dates, ends with success:true and exit code 0.        *)
(***************************************************************************)
\* the failures the claim lists
ListedFailure ==
  \/ ~world.ready
  \/ args.file = ""
  \/ ~world.exists
  \/ world.raises # "none"

FailureReported ==
  /\ "success" \in DOMAIN output.json
  /\ output.json.success = FALSE
  /\ output.exit_code = 1

SuccessReported ==
  /\ "success" \in DOMAIN output.json
  /\ output.json.success = TRUE
  /\ output.exit_code = 0

C4_FailureExactlyWhenListed ==
  (pc = "exit" /\ caller = "main") =>
    /\ FailureReported <=> ListedFailure
    /\ ~ListedFailure => SuccessReported

(***************************************************************************)
(* C4 (amended).  In every run of main that is not a --check dependency    *)
(* report (and whose command line parsed), the outcome is success:false    *)
(* with exit code 1 exactly when the dependencies are not ready, no file   *)
(* is specified, the file does not exist or an unexpected exception        *)
(* escapes processing; otherwise, an OCR-stage failure on the existing     *)
(* file or a parse without items or dates included, the outcome is         *)
(* success:true with exit code 0.                                          *)
(***************************************************************************)
C4_FailureExactlyWhenListedUnlessCheck ==
  (pc = "exit" /\ caller = "main" /\ ~args.check) =>
    /\ FailureReported <=> ListedFailure
    /\ ~ListedFailure => SuccessReported

\* The rasterization of an existing file raises, and the run ends with
\* success:true, exit code 0 and the error in the record
C4_Witness ==
  /\ pc = "exit"
  /\ caller = "main"
  /\ ~args.check
  /\ ~ListedFailure
  /\ world.raster_fails
  /\ SuccessReported
  /\ output.json.data.errors = <<"Failed to extract text from PDF">>

(***************************************************************************)
(* C11.  In the line scan of extract_items the fallback pattern adds an    *)
(* item for a line only if no structural pattern has produced an accepted  *)
(* item on that line or on an earlier line; so no line adds both a         *)
(* structural item and a fallback item, and a line adds at most one item.  *)
(***************************************************************************)
\* a structural pattern produced an accepted item on one of the first n lines
StructuralAccepted(n) ==
  \E m \in 1..n : ~ScanOf(lines[m]).skipped /\ ScanOf(lines[m]).structural.accepted

\* the number of items the iteration on line idx + 1 appends
AddedByLine == Len(items') - Len(items)

\* the fallback block appends an item in the iteration on line idx + 1
FallbackAdded ==
  AddedByLine > (IF ~ScanOf(lines[idx + 1]).skipped
                    /\ ScanOf(lines[idx + 1]).structural.accepted THEN 1 ELSE 0)

C11_FallbackOnlyWithoutStructural ==
  [][(pc = "scan" /\ idx' = idx + 1) =>
       /\ FallbackAdded => ~StructuralAccepted(idx + 1)
       /\ AddedByLine <= 1]_vars

(***************************************************************************)
(* C12.  When extract_text_from_pdf runs to its end, the text of each page *)
(* is made of exactly the words with a confidence above 0 and a text that  *)
(* is not blank, and the confidence returned is the mean, over the pages   *)
(* with such a word, of the page's average word confidence: it is 0        *)
(* exactly when no page has such a word, lies in (0, 100] otherwise, and   *)
(* is not below the least page average, so that pages without words do not *)
(* lower it.                                                               *)
(***************************************************************************)
\* the word has a confidence above 0 and a character that is not white space
Confident(word) ==
  /\ word.conf > 0
  /\ \E k \in 1..Len(word.text) : CharAt(word.text, k) \notin Space

ConfidentWords(page) == SelectSeq(page.words, Confident)

\* the sum of the confidences of the first n words of ws
RECURSIVE ConfidenceTotal(_, _)
ConfidenceTotal(ws, n) ==
  IF n = 0 THEN 0 ELSE ConfidenceTotal(ws, n - 1) + ws[n].conf

\* the pages rasterized that have a confident word
PagesWithWords == {i \in 1..Len(images) : Len(ConfidentWords(images[i])) > 0}

\* the sum of the page averages of the first n pages, as a fraction
\* <<numerator, denominator>> that is not reduced
RECURSIVE AveragesTotal(_)
AveragesTotal(n) ==
  IF n = 0 THEN <<0, 1>>
  ELSE IF n \notin PagesWithWords THEN AveragesTotal(n - 1)
  ELSE <<AveragesTotal(n - 1)[1] * Len(ConfidentWords(images[n]))
           + ConfidenceTotal(ConfidentWords(images[n]), Len(ConfidentWords(images[n])))
               * AveragesTotal(n - 1)[2],
         AveragesTotal(n - 1)[2] * Len(ConfidentWords(images[n]))>>

\* the fraction q is at least the average word confidence of page i
AtLeastPageAverage(q, i) ==
  q[1] * Len(ConfidentWords(images[i]))
    >= q[2] * ConfidenceTotal(ConfidentWords(images[i]), Len(ConfidentWords(images[i])))

C12_ConfidenceIsMeanOfPageAverages ==
  (pc = "text" /\ OcrCompletes) =>
    /\ Len(all_text) = Len(images)
    /\ \A i \in 1..Len(images) :
         all_text[i] = join(" ", [j \in 1..Len(ConfidentWords(images[i])) |->
                                    ConfidentWords(images[i])[j].text])
    /\ confidence[2] > 0
    /\ confidence[1] * AveragesTotal(Len(images))[2] * Cardinality(PagesWithWords)
         = confidence[2] * AveragesTotal(Len(images))[1]
    /\ confidence[1] = 0 <=> PagesWithWords = {}
    /\ PagesWithWords # {} =>
         /\ confidence[1] > 0
         /\ confidence[1] <= 100 * confidence[2]
         /\ \E i \in PagesWithWords : AtLeastPageAverage(confidence, i)

\* Two pages were read, one with eleven confident words and one whose words
\* were all dropped, and the confidence returned is the average of the eleven,
\* 917/11
C12_Witness ==
  /\ pc = "text"
  /\ OcrCompletes
  /\ Len(images) = 2
  /\ Cardinality(PagesWithWords) = 1
  /\ \E i \in 1..Len(images) : i \notin PagesWithWords /\ Len(images[i].words) > 0
  /\ \E i \in PagesWithWords : Len(ConfidentWords(images[i])) = 11
  /\ confidence = <<917, 11>>

(***************************************************************************)
(* C13.  The text process_pdf hands to extract_items has, for N pages      *)
(* rasterized, 4N - 3 lines: one line for each page, made of the page's    *)
(* kept words joined by single spaces, and between two pages an empty      *)
(* line, the page-break line and an empty line.  So at most N lines of it, *)
(* none of them a separator line, yield an item from a structural pattern, *)
(* however many item rows a page holds.  No recognized word of the pages   *)
(* holds a line break.                                                     *)
(***************************************************************************)
\* the text is the one process_pdf hands to the parser
HandedToParser == pc \in {"text", "returned"} /\ text # ""

\* the lines of ls on which a structural pattern yields an accepted item
StructuralLines(ls) ==
  {n \in 1..Len(ls) : ~ScanOf(ls[n]).skipped /\ ScanOf(ls[n]).structural.accepted}

\* the line of page k among the lines of the text
PageLine(k) == 4 * k - 3

\* no word recognized on the pages holds a line break
NoLineBreakInWords ==
  \A i \in 1..Len(images) : \A j \in 1..Len(images[i].words) :
    \A k \in 1..Len(images[i].words[j].text) : CharAt(images[i].words[j].text, k) # "\n"

C13_OneLinePerPage ==
  (HandedToParser /\ NoLineBreakInWords) =>
    /\ Len(images) >= 1
    /\ Len(split(text, "\n")) = PageLine(Len(images))
    /\ \A k \in 1..Len(images) :
         split(text, "\n")[PageLine(k)]
           = join(" ", [j \in 1..Len(ConfidentWords(images[k])) |->
                          ConfidentWords(images[k])[j].text])
    /\ \A k \in 1..(Len(images) - 1) :
         /\ split(text, "\n")[PageLine(k) + 1] = ""
         /\ split(text, "\n")[PageLine(k) + 2] = "--- PAGE BREAK ---"
         /\ split(text, "\n")[PageLine(k) + 3] = ""
    /\ StructuralLines(split(text, "\n")) \subseteq {PageLine(k) : k \in 1..Len(images)}
    /\ Cardinality(StructuralLines(split(text, "\n"))) <= Len(images)

\* the words of a page that open an item row: a number and a full stop
ItemRows(page) ==
  {j \in 1..Len(page.words) :
     /\ Confident(page.words[j])
     /\ Len(page.words[j].text) = 2
     /\ CharAt(page.words[j].text, 1) \in Digit
     /\ CharAt(page.words[j].text, 2) = "."}

\* Two pages of two item rows each were parsed: each page is one line and
\* yields one structural item, and the record holds fewer items than rows
C13_Witness ==
  /\ pc = "returned"
  /\ text # ""
  /\ Len(images) = 2
  /\ \A k \in 1..2 : Cardinality(ItemRows(images[k])) = 2
  /\ StructuralLines(split(text, "\n")) = {PageLine(1), PageLine(2)}
  /\ result.items_count < 4
  /\ result.items_count >= 1

====
